---- MODULE Spec2Model ----
(***************************************************************************)
(* The RJMS control layer of batsim_py (src/batsim_py/rjms.py): the job    *)
(* cohorts queue -> ready -> running -> completed, the Agenda (reservation *)
(* per resource), the start sweep gated by the power state of the hosts,   *)
(* and the policy calls.  The platform (nodes, resources), the Job class   *)
(* and the simulator adapter are imported by rjms.py from modules that are *)
(* not part of the sources at hand; they are modelled from the written     *)
(* specification (sections 3, 4.1 and 4.3).                                *)
(***************************************************************************)
EXTENDS Integers, Sequences, FiniteSets, TLC

(* ---------------------------------------------------------------- bounds *)
\* Largest simulation time a batch of events may carry.
MaxTime == 1

(* -------------------------------------------------------------- platform *)
\* A platform is the map from the id of a resource to the id of its node.
\* One node owning the resources 0 and 1, and two nodes of one resource each.
OneNode == [r \in {0, 1} |-> 0]
TwoNodes == [r \in {0, 1} |-> r]
NoPlatform == <<>>
NodeIds == {0, 1}
\* An id that names no resource of the platform.
BadId == 9

\* Power states of a node: the first computation pstate, a second
\* computation pstate and the sleep pstate.
PsComp == 0
PsAlt == 1
PsSleep == 2
PStates == {PsComp, PsAlt, PsSleep}
IsCompPs(p) == p \in {PsComp, PsAlt}

Jobs == {"a", "b"}
None == "None"
NoTime == -1
\* The walltime of a job that has none (np.inf).
Infinity == 1000
\* resource_ids=None, the default of allocate.
NoIds == <<-1>>

VARIABLES
  is_running,      \* simulator.is_running
  now,             \* simulator.current_time
  pc,              \* where the controller is: "idle" (between policy calls),
                   \* "batch" (inside proceed_time), "drain" (inside
                   \* check_end_of_simulation), "raised" (the last call
                   \* raised and changed nothing)
  until,           \* the argument of the proceed_time call in progress (0: none)
  use_batsim,      \* RJMSHandler.use_batsim
  simulation_time, \* RJMSHandler.simulation_time (0: None)
  submitter_ended, \* RJMSHandler.submitter_ended
  platform,        \* RJMSHandler.platform (NoPlatform: None)
  queue, ready, running, completed,  \* RJMSHandler._jobs
  res, alloc, start_time, jstate,    \* per job: res, allocation, start_time, state
  stop_time,       \* per job: stop_time
  walltime,        \* per job: walltime (Infinity: the job has none)
  reservations,    \* Agenda.reservations: resource id -> job or None
  power,           \* per node: its power lifecycle
  computing,       \* the resources that are computing a job
  pending,         \* the nodes with a request to their sleep pstate (node
                   \* switching-off) or computation pstate (node switching-on)
                   \* sent to the adapter and not yet confirmed
  sent,            \* the requests the last operation issued to the adapter
  dispatched,      \* the JOB_ALLOCATED events the last operation dispatched,
                   \* each with the controller state its subscribers find
  lastOp, result,  \* the last operation and how it ended ("ok" or the error)
  seen, nb_rejected, execd  \* history: jobs submitted, REJECT_JOB and EXECUTE_JOB counts

vars == <<is_running, now, pc, until, use_batsim, simulation_time,
          submitter_ended, platform, queue, ready, running, completed,
          res, alloc, start_time, jstate, stop_time, walltime, reservations,
          power, pending,
          computing, sent, dispatched, lastOp, result, seen, nb_rejected,
          execd>>

(* --------------------------------------------------------------- helpers *)
Range(s) == {s[i] : i \in DOMAIN s}

\* platform.resources, platform.nodes, platform.nb_resources, r.parent_id and
\* node.resources (in id order).
Resources == DOMAIN platform
Nodes == {platform[r] : r \in Resources}
nb_resources == Cardinality(Resources)
Parent(r) == platform[r]
RECURSIVE ResFrom(_, _)
ResFrom(n, r) ==
  IF r >= nb_resources THEN <<>>
  ELSE (IF Parent(r) = n THEN <<r>> ELSE <<>>) \o ResFrom(n, r + 1)
NodeResources(n) == ResFrom(n, 0)
\* list.remove(x) that removes nothing.
RemoveNothing(s, x) == s

\* list.remove(x), for lists that hold x at most once.
Remove(s, x) == SelectSeq(s, LAMBDA y : y # x)

\* State of a node (section 4.1): its power lifecycle, and computing as long
\* as one of its resources computes a job.
HostState(pw, cp, n) ==
  IF pw[n] # "on" THEN pw[n]
  ELSE IF \E r \in Resources : Parent(r) = n /\ r \in cp THEN "computing"
  ELSE "idle"

\* State of a resource: it inherits the power state of its node.
ResState(pw, cp, r) ==
  IF pw[Parent(r)] # "on" THEN pw[Parent(r)]
  ELSE IF r \in cp THEN "computing" ELSE "idle"

\* A request to the adapter: its kind, job id, resource ids, integer argument
\* (pstate id or wake-up time) and the simulation time it is stamped with.
Req(type, job, rs, ps, t) == [type |-> type, job |-> job, rs |-> rs, ps |-> ps, at |-> t]

(* ------------------------------------------------- platform (node, resource) *)
\* node.wakeup(): sleeping -> switching-on; any other state is an InvalidState.
CanWakeup(pw, n) == pw[n] = "sleeping"
Wakeup(pw, n) == [pw EXCEPT ![n] = "switching_on"]

\* node.sleep(): idle -> switching-off; any other state is an InvalidState.
CanSleep(pw, cp, n) == HostState(pw, cp, n) = "idle"
Sleep(pw, n) == [pw EXCEPT ![n] = "switching_off"]

\* node.set_pstate(id): between computation pstates of an idle or computing node.
CanSetCompPstate(pw, cp, n, p) ==
  HostState(pw, cp, n) \in {"idle", "computing"} /\ IsCompPs(p)

\* resource.set_pstate(p) when the simulator reports the pstate p: the
\* lifecycle step of the node owning the resource.
ConfirmPower(pw, n, p) ==
  IF pw[n] = "switching_off" /\ p = PsSleep THEN [pw EXCEPT ![n] = "sleeping"]
  ELSE IF pw[n] = "switching_on" /\ IsCompPs(p) THEN [pw EXCEPT ![n] = "on"]
  ELSE pw

\* The first computation / sleep pstate of a node (next(ps.id for ps in ...)).
FirstCompPs(n) == PsComp
FirstSleepPs(n) == PsSleep

(* ------------------------------------------------------------------ Agenda *)
\* Agenda.__init__: every resource of the platform pf, unreserved.
AgendaInit(pf) == [r \in DOMAIN pf |-> None]

\* Agenda.get_available_resources: the free resources in ascending id order.
RECURSIVE AvailFrom(_, _)
AvailFrom(rv, r) ==
  IF r >= nb_resources THEN <<>>
  ELSE (IF rv[r] = None THEN <<r>> ELSE <<>>) \o AvailFrom(rv, r + 1)
get_available_resources(rv) == AvailFrom(rv, 0)

\* Agenda.reserve whose assertion looks the resources up and never tests the
\* entries for None.
ReserveUnchecked(rv, al) ==
  IF \E i \in 1..Len(al) : al[i] \notin DOMAIN rv THEN "KeyError" ELSE "ok"

\* Agenda.reserve: the assertion, evaluated over job.allocation in order; an
\* id that is no key of the reservations raises KeyError inside it.
RECURSIVE ReserveScan(_, _, _)
ReserveScan(rv, al, i) ==
  IF i > Len(al) THEN "ok"
  ELSE IF al[i] \notin Resources THEN "KeyError"
  ELSE IF rv[al[i]] # None THEN "AlreadyReserved"
  ELSE ReserveScan(rv, al, i + 1)
ReserveError(rv, al) == ReserveScan(rv, al, 1)
reserve(rv, j, al) == [r \in Resources |-> IF r \in Range(al) THEN j ELSE rv[r]]

\* Agenda.release that leaves the entries as they are.
ReleaseNothing(rv, rs) == rv

\* Agenda.release(resource id).
release(rv, rs) == [r \in Resources |-> IF r \in rs THEN None ELSE rv[r]]

(* ------------------------------------------------ turn_on, the start sweep *)
\* The part of the controller and platform state a sweep reads and writes.
SweepState ==
  [ready |-> ready, running |-> running, power |-> power,
   computing |-> computing, start_time |-> start_time, jstate |-> jstate,
   sent |-> <<>>, execd |-> execd, t |-> now]

\* turn_on(node_id) that sends one set_resources_pstate per resource of the node.
TurnOnPerResource(s, n) ==
  [s EXCEPT !.power = Wakeup(s.power, n),
            !.sent = @ \o [i \in 1..Len(NodeResources(n)) |->
               Req("SET_RESOURCES_PSTATE", None, <<NodeResources(n)[i]>>, FirstCompPs(n), s.t)]]

\* RJMSHandler.turn_on(node_id) as the sweep calls it, for one sleeping node:
\* node.wakeup(), then one set_resources_pstate for its resources.
TurnOnOne(s, n) ==
  [s EXCEPT !.power = Wakeup(s.power, n),
            !.sent = Append(s.sent,
               Req("SET_RESOURCES_PSTATE", None, NodeResources(n), FirstCompPs(n), s.t))]

\* RJMSHandler.initiate_resources: the loop over the allocated resources.
\* Returns <<state, ready>>.
RECURSIVE InitLoop(_, _, _, _, _)
InitLoop(s, al, i, visited, rdy) ==
  IF i > Len(al) THEN <<s, rdy>>
  ELSE LET r == al[i]
           n == Parent(r)
       IN IF ResState(s.power, s.computing, r) # "idle" /\ n \notin visited
          THEN InitLoop(IF ResState(s.power, s.computing, r) = "sleeping"
                        THEN TurnOnOne(s, n) ELSE s,
                        al, i + 1, visited \cup {n}, FALSE)
          ELSE InitLoop(s, al, i + 1, visited, rdy)
\* initiate_resources that reports the resources ready whatever the loop found.
InitiateAlwaysReady(s, al) == <<InitLoop(s, al, 1, {}, TRUE)[1], TRUE>>

initiate_resources(s, al) == InitLoop(s, al, 1, {}, TRUE)

\* start_ready_jobs without the r.start_computing() of the allocated resources.
StartWithoutComputing(s, j, al) ==
  LET ir == initiate_resources(s, al)
      s1 == ir[1]
  IN IF ir[2]
     THEN [s1 EXCEPT !.start_time = [@ EXCEPT ![j] = s1.t],
                     !.jstate = [@ EXCEPT ![j] = "running"],
                     !.sent = Append(@, Req("EXECUTE_JOB", j, al, 0, s1.t)),
                     !.execd = [@ EXCEPT ![j] = @ + 1],
                     !.ready = Remove(@, j),
                     !.running = @ \cup {j}]
     ELSE s1

\* The body of the loop of start_ready_jobs for one job of the snapshot.
StartIfReady(s, j, al) ==
  LET ir == initiate_resources(s, al)
      s1 == ir[1]
  IN IF ir[2]
     THEN [s1 EXCEPT !.computing = @ \cup Range(al),
                     !.start_time = [@ EXCEPT ![j] = s1.t],
                     !.jstate = [@ EXCEPT ![j] = "running"],
                     !.sent = Append(@, Req("EXECUTE_JOB", j, al, 0, s1.t)),
                     !.execd = [@ EXCEPT ![j] = @ + 1],
                     !.ready = Remove(@, j),
                     !.running = @ \cup {j}]
     ELSE s1

\* RJMSHandler.start_ready_jobs: over a snapshot (list(...)) of the ready jobs.
RECURSIVE SweepLoop(_, _, _, _)
SweepLoop(s, snapshot, i, al) ==
  IF i > Len(snapshot) THEN s
  ELSE SweepLoop(StartIfReady(s, snapshot[i], al[snapshot[i]]), snapshot, i + 1, al)
\* start_ready_jobs that goes over the ready list itself, by position, while
\* the started jobs are removed from it.
RECURSIVE SweepLiveLoop(_, _, _)
SweepLiveLoop(s, i, al) ==
  IF i > Len(s.ready) THEN s
  ELSE SweepLiveLoop(StartIfReady(s, s.ready[i], al[s.ready[i]]), i + 1, al)
StartReadyJobsLive(s) == SweepLiveLoop(s, 1, alloc)

\* start_ready_jobs that starts at most the first job of the snapshot.
StartFirstReadyJob(s) ==
  IF s.ready = <<>> THEN s ELSE StartIfReady(s, s.ready[1], alloc[s.ready[1]])

start_ready_jobs(s) == SweepLoop(s, s.ready, 1, alloc)

(* ---------------------------------------------------------------- frames *)
jobVars == <<res, alloc, start_time, jstate, stop_time, walltime>>
cohortVars == <<queue, ready, running, completed>>
hostVars == <<power, computing, pending>>
histVars == <<seen, nb_rejected, execd>>
simVars == <<is_running, now, pc, until>>
ctlVars == <<use_batsim, simulation_time, submitter_ended, platform>>

\* How an operation ends; it has dispatched the events evs to the subscribers
\* of the controller (Done: none).
DoneWith(op, r, evs) == lastOp' = op /\ result' = r /\ dispatched' = evs
Done(op, r) == DoneWith(op, r, <<>>)

\* An operation that raises before it changed anything: the caller gets the
\* exception (pc = "raised").  The controller is as the call found it, so
\* what the caller may do next is what it could do before the call, and is
\* explored from there.
Fail(op, err) ==
  /\ Done(op, err)
  /\ sent' = <<>>
  /\ pc' = "raised"
  /\ UNCHANGED <<is_running, now, until, ctlVars, cohortVars, jobVars,
                 reservations, hostVars, histVars>>

\* The writes of an event handler and its sweep.  A node whose power state
\* the handler changed has had its request confirmed by the event; a node the
\* sweep has woken has a new request on its way.
ApplySweep(s) ==
  /\ ready' = s.ready
  /\ running' = s.running
  /\ power' = s.power
  /\ pending' = {n \in NodeIds : IF s.power[n] = power[n] THEN n \in pending
                                  ELSE s.power[n] = "switching_on"}
  /\ computing' = s.computing
  /\ start_time' = s.start_time
  /\ jstate' = s.jstate
  /\ execd' = s.execd

\* One more batch of events from simulator.proceed_simulation(): the time of
\* the batch is not before the current time.
NextBatchTime(t) == t \in now..MaxTime

(* ------------------------------------------------------------------ Init *)
\* RJMSHandler.__init__(use_batsim=b).
InitOn(b) ==
  /\ is_running = FALSE /\ now = 0 /\ pc = "idle" /\ until = 0
  /\ use_batsim = b
  /\ simulation_time = 0 /\ submitter_ended = FALSE /\ platform = NoPlatform
  /\ queue = <<>> /\ ready = <<>> /\ running = {} /\ completed = <<>>
  /\ res = [j \in Jobs |-> 0]
  /\ alloc = [j \in Jobs |-> <<>>]
  /\ start_time = [j \in Jobs |-> NoTime]
  /\ stop_time = [j \in Jobs |-> NoTime]
  /\ walltime = [j \in Jobs |-> NoTime]
  /\ jstate = [j \in Jobs |-> "none"]
  /\ reservations = <<>>
  /\ power = [n \in NodeIds |-> "on"]
  /\ pending = {}
  /\ computing = {}
  /\ sent = <<>> /\ dispatched = <<>> /\ lastOp = "init" /\ result = "ok"
  /\ seen = {} /\ nb_rejected = 0 /\ execd = [j \in Jobs |-> 0]

(* ----------------------------------------------------------------- start *)
\* A res larger than any platform has.
BigRes == 3

\* What the first batch of events holds after SIMULATION_BEGINS.
FirstBatch ==
  {[kind |-> "none", job |-> None, n |-> 0]}
  \cup {[kind |-> "submit", job |-> "a", n |-> n] : n \in {1, BigRes}}
  \cup {[kind |-> "no_more_static_job_to_submit", job |-> None, n |-> 0],
        [kind |-> "no_more_external_event_to_occur", job |-> None, n |-> 0]}

\* RJMSHandler.start: the two assertions; simulator.start(), which blocks
\* until the first batch of events is handled: SIMULATION_BEGINS
\* (on_simulation_begins: platform, a new Agenda, the wake-up at
\* simulation_time) and what follows it in the batch, e (on_job_submitted or
\* on_notify); then the cohorts and submitter_ended are reset.  The Job objects
\* of an earlier run are dropped with the cohorts.  given = FALSE is
\* simulation_time=None.
Start(given, st, e, pf) ==
  /\ pc = "idle"
  /\ IF is_running THEN Fail("start", "AlreadyRunning")
     ELSE IF ~(~given \/ st = 0 \/ st > 0) THEN Fail("start", "InvalidArgument")
     ELSE /\ simulation_time' = (IF given THEN st ELSE 0)
          /\ is_running' = (e.kind # "no_more_external_event_to_occur")
          /\ now' = 0 /\ pc' = "idle" /\ until' = 0
          /\ platform' = pf
          /\ reservations' = AgendaInit(pf)
          /\ power' = [n \in NodeIds |-> "on"]
          /\ pending' = {}
          /\ computing' = {}
          /\ sent' = (IF given /\ st # 0
                      THEN <<Req("CALL_ME_LATER", None, <<>>, st, 0)>> ELSE <<>>)
                     \o (IF e.kind = "submit" /\ e.n > Cardinality(DOMAIN pf)
                         THEN <<Req("REJECT_JOB", e.job, <<>>, 0, 0)>> ELSE <<>>)
                     \o (IF e.kind = "no_more_external_event_to_occur"
                         THEN <<Req("FINISH", None, <<>>, 0, 0)>> ELSE <<>>)
          /\ queue' = <<>> /\ ready' = <<>> /\ running' = {} /\ completed' = <<>>
          /\ submitter_ended' = FALSE
          /\ res' = [j \in Jobs |-> 0]
          /\ alloc' = [j \in Jobs |-> <<>>]
          /\ start_time' = [j \in Jobs |-> NoTime]
          /\ stop_time' = [j \in Jobs |-> NoTime]
          /\ walltime' = [j \in Jobs |-> NoTime]
          /\ jstate' = [j \in Jobs |-> "none"]
          /\ execd' = [j \in Jobs |-> 0]
          /\ seen' = (IF e.kind = "submit" THEN {e.job} ELSE {})
          /\ nb_rejected' = (IF e.kind = "submit" /\ e.n > Cardinality(DOMAIN pf)
                              THEN 1 ELSE 0)
          /\ Done("start", "ok")
          /\ UNCHANGED use_batsim

(* ------------------------------------------------------- simulator events *)
\* The adapter delivers events while the controller is inside one of its
\* blocking calls and the simulation runs.
InBatch == pc \in {"batch", "drain"} /\ is_running

\* A handler raised: the blocking call of the controller is left.
Abort(op, err) ==
  /\ Done(op, err) /\ pc' = "idle" /\ until' = 0
  /\ UNCHANGED <<is_running, now>>

\* The walltime of the jobs of the workload: job a has a walltime of one
\* time unit, job b has none.
WalltimeOf(j) == IF j = "a" THEN 1 ELSE Infinity

\* The simulator submits the jobs of the workload in order.
SubmittedBefore(j) == IF j = "b" THEN {"a"} ELSE {}

\* on_job_submitted that rejects with >= in place of >.
OnJobSubmittedOffByOne(j, n) ==
  /\ InBatch /\ j \notin seen /\ SubmittedBefore(j) \subseteq seen
  /\ seen' = seen \cup {j}
  /\ res' = [res EXCEPT ![j] = n]
  /\ walltime' = [walltime EXCEPT ![j] = WalltimeOf(j)]
  /\ jstate' = [jstate EXCEPT ![j] = "submitted"]
  /\ IF n >= nb_resources
     THEN /\ sent' = <<Req("REJECT_JOB", j, <<>>, 0, now)>>
          /\ nb_rejected' = nb_rejected + 1
          /\ queue' = queue
     ELSE /\ sent' = <<>>
          /\ nb_rejected' = nb_rejected
          /\ queue' = Append(queue, j)
  /\ Done("job_submitted", "ok")
  /\ UNCHANGED <<simVars, ctlVars, ready, running, completed, alloc, start_time, stop_time,
                 reservations, hostVars, execd>>

\* on_job_submitted.
OnJobSubmitted(j, n) ==
  /\ InBatch /\ j \notin seen /\ SubmittedBefore(j) \subseteq seen
  /\ seen' = seen \cup {j}
  /\ res' = [res EXCEPT ![j] = n]
  /\ walltime' = [walltime EXCEPT ![j] = WalltimeOf(j)]
  /\ jstate' = [jstate EXCEPT ![j] = "submitted"]
  /\ IF n > nb_resources
     THEN /\ sent' = <<Req("REJECT_JOB", j, <<>>, 0, now)>>
          /\ nb_rejected' = nb_rejected + 1
          /\ queue' = queue
     ELSE /\ sent' = <<>>
          /\ nb_rejected' = nb_rejected
          /\ queue' = Append(queue, j)
  /\ Done("job_submitted", "ok")
  /\ UNCHANGED <<simVars, ctlVars, ready, running, completed, alloc, start_time, stop_time,
                 reservations, hostVars, execd>>

\* on_job_completed, then the start_ready_jobs callback of JOB_COMPLETED.
OnJobCompleted(j, fs) ==
  /\ InBatch
  /\ IF j \notin running
     THEN /\ Abort("job_completed", "KeyError")
          /\ sent' = <<>>
          /\ UNCHANGED <<ctlVars, cohortVars, jobVars, reservations, hostVars, histVars>>
     ELSE LET s0 == [SweepState EXCEPT
                       !.running = @ \ {j},
                       !.jstate = [@ EXCEPT ![j] = fs],
                       !.computing = @ \ Range(alloc[j])]
              s == start_ready_jobs(s0)
          IN /\ ApplySweep(s)
             /\ sent' = s.sent
             /\ reservations' = release(reservations, Range(alloc[j]))
             /\ completed' = Append(completed, j)
             /\ Done("job_completed", "ok")
             /\ stop_time' = [stop_time EXCEPT ![j] = now]
             /\ UNCHANGED <<simVars, ctlVars, queue, res, alloc, walltime, seen,
                            nb_rejected>>

\* on_job_killed, then the start_ready_jobs callback of JOB_KILLED.  The loop
\* runs over data.job_ids but pops data.job_id in every round: jid is what
\* that attribute holds (None: the event has no such attribute).
RECURSIVE KillLoop(_, _, _, _)
KillLoop(s, rv, n, jid) ==
  IF n = 0 THEN [s |-> s, rv |-> rv, err |-> "ok"]
  ELSE IF jid = None THEN [s |-> s, rv |-> rv, err |-> "AttributeError"]
  ELSE IF jid \notin s.running THEN [s |-> s, rv |-> rv, err |-> "KeyError"]
  ELSE KillLoop([s EXCEPT !.running = @ \ {jid},
                          !.jstate = [@ EXCEPT ![jid] = "COMPLETED_KILLED"],
                          !.computing = @ \ Range(alloc[jid])],
                release(rv, Range(alloc[jid])), n - 1, jid)

OnJobKilled(ids, jid) ==
  /\ InBatch
  /\ LET k == KillLoop(SweepState, reservations, Len(ids), jid)
         s == IF k.err = "ok" THEN start_ready_jobs(k.s) ELSE k.s
     IN /\ ApplySweep(s)
        /\ sent' = s.sent
        /\ reservations' = k.rv
        /\ IF k.err = "ok"
           THEN Done("job_killed", "ok") /\ UNCHANGED simVars
           ELSE Abort("job_killed", k.err)
        /\ stop_time' = [j \in Jobs |-> IF j \in running \ k.s.running
                                          THEN now ELSE stop_time[j]]
        /\ UNCHANGED <<ctlVars, queue, completed, res, alloc, walltime, seen,
                       nb_rejected>>

\* on_resource_power_state_changed that applies no pstate to the resources.
ConfirmNothing(pw, ns, p) == pw

\* on_resource_power_state_changed for the resources of the nodes ns, then the
\* start_ready_jobs callback of RESOURCE_STATE_CHANGED.
RECURSIVE ConfirmAll(_, _, _)
ConfirmAll(pw, ns, p) ==
  IF ns = {} THEN pw
  ELSE LET n == CHOOSE x \in ns : TRUE
       IN ConfirmAll(ConfirmPower(pw, n, p), ns \ {n}, p)

OnResourceStateChanged(ns, p) ==
  /\ InBatch
  /\ LET pw == ConfirmAll(power, ns, p)
         s == start_ready_jobs([SweepState EXCEPT !.power = pw])
     IN /\ ApplySweep(s)
        /\ sent' = s.sent
        /\ Done("resource_state_changed", "ok")
        /\ UNCHANGED <<simVars, ctlVars, queue, completed, res, alloc, stop_time, walltime,
                       reservations, seen, nb_rejected>>

\* on_requested_call without the comparison of the current time with the
\* bound: any requested call ends a bounded simulation.
OnRequestedCallAnyTime ==
  /\ InBatch
  /\ IF simulation_time # 0
     THEN is_running' = FALSE /\ sent' = <<Req("FINISH", None, <<>>, 0, now)>>
     ELSE is_running' = is_running /\ sent' = <<>>
  /\ Done("requested_call", "ok")
  /\ UNCHANGED <<now, pc, until, ctlVars, cohortVars, jobVars, reservations,
                 hostVars, histVars>>

\* on_requested_call.
OnRequestedCall ==
  /\ InBatch
  /\ IF simulation_time # 0 /\ now >= simulation_time
     THEN is_running' = FALSE /\ sent' = <<Req("FINISH", None, <<>>, 0, now)>>
     ELSE is_running' = is_running /\ sent' = <<>>
  /\ Done("requested_call", "ok")
  /\ UNCHANGED <<now, pc, until, ctlVars, cohortVars, jobVars, reservations,
                 hostVars, histVars>>

\* on_notify.
OnNotify(type) ==
  /\ InBatch
  /\ IF type \in {"no_more_static_job_to_submit", "registration_finished"}
     THEN submitter_ended' = TRUE /\ is_running' = is_running /\ sent' = <<>>
     ELSE /\ submitter_ended' = submitter_ended
          /\ is_running' = FALSE
          /\ sent' = <<Req("FINISH", None, <<>>, 0, now)>>
  /\ Done("notify", "ok")
  /\ UNCHANGED <<now, pc, until, use_batsim, simulation_time, platform,
                 cohortVars, jobVars, reservations, hostVars, histVars>>

\* SIMULATION_ENDS: the adapter stops running; on_simulation_ends closes the
\* job submitter.
OnSimulationEnds ==
  /\ InBatch
  /\ is_running' = FALSE
  /\ sent' = <<>>
  /\ Done("simulation_ends", "ok")
  /\ UNCHANGED <<now, pc, until, ctlVars, cohortVars, jobVars, reservations,
                 hostVars, histVars>>

(* ------------------------------------------------------------ policy calls *)
\* proceed_time without its start_ready_jobs call: the simulation proceeds
\* and the ready jobs are left as they are.
ProceedTimeNoSweep(u, t) ==
  /\ pc = "idle"
  /\ IF ~is_running THEN Fail("proceed_time", "NotRunning")
     ELSE /\ ApplySweep(SweepState)
          /\ IF u > 0 /\ ~(u > now)
             THEN /\ sent' = <<>>
                  /\ Done("proceed_time", "InvalidArgument")
                  /\ pc' = "raised"
                  /\ UNCHANGED <<now, until>>
             ELSE /\ sent' = (IF u > 0
                              THEN <<Req("CALL_ME_LATER", None, <<>>, u, now)>>
                              ELSE <<>>)
                  /\ NextBatchTime(t) /\ now' = t
                  /\ pc' = "batch"
                  /\ until' = (IF u > 0 THEN u ELSE 0)
                  /\ Done("proceed_time", "ok")
          /\ UNCHANGED <<is_running, ctlVars, queue, completed, res, alloc, stop_time, walltime,
                         reservations, seen, nb_rejected>>

\* RJMSHandler.proceed_time up to its first simulator.proceed_simulation():
\* the assertion, the sweep, the check of until, the wake-up request; the
\* adapter then delivers the batch of time t.
ProceedTime(u, t) ==
  /\ pc = "idle"
  /\ IF ~is_running THEN Fail("proceed_time", "NotRunning")
     ELSE LET s == start_ready_jobs(SweepState)
          IN /\ ApplySweep(s)
             /\ IF u > 0 /\ ~(u > now)
                THEN /\ sent' = s.sent
                     /\ Done("proceed_time", "InvalidArgument")
                     /\ pc' = (IF s.sent = <<>> THEN "raised" ELSE "idle")
                     /\ UNCHANGED <<now, until>>
                ELSE /\ sent' = (IF u > 0
                                 THEN Append(s.sent, Req("CALL_ME_LATER", None, <<>>, u, now))
                                 ELSE s.sent)
                     /\ NextBatchTime(t) /\ now' = t
                     /\ pc' = "batch"
                     /\ until' = (IF u > 0 THEN u ELSE 0)
                     /\ Done("proceed_time", "ok")
             /\ UNCHANGED <<is_running, ctlVars, queue, completed, res, alloc, stop_time, walltime,
                            reservations, seen, nb_rejected>>

\* RJMSHandler.check_end_of_simulation: its condition.
EndOfSimulation ==
  /\ submitter_ended /\ is_running
  /\ Len(ready) = 0 /\ Cardinality(running) = 0 /\ Len(queue) = 0

\* The events of a batch are handled: proceed_time either calls
\* proceed_simulation() again (the while loop, or the loop of
\* check_end_of_simulation) and the adapter delivers the batch of time t, or
\* it returns.
BatchDone(t) ==
  /\ pc \in {"batch", "drain"}
  /\ NextBatchTime(t)
  /\ IF pc = "batch" /\ until > 0 /\ is_running /\ now < until
     THEN now' = t /\ pc' = "batch" /\ until' = until
     ELSE IF pc = "batch" /\ use_batsim /\ EndOfSimulation
     THEN now' = t /\ pc' = "drain" /\ until' = 0
     ELSE IF pc = "drain" /\ is_running
     THEN now' = t /\ pc' = "drain" /\ until' = 0
     ELSE now' = now /\ pc' = "idle" /\ until' = 0
  /\ sent' = <<>>
  /\ Done("batch_done", "ok")
  /\ UNCHANGED <<is_running, ctlVars, cohortVars, jobVars, reservations,
                 hostVars, histVars>>

\* close without its test of is_running: finish() at every call.
CloseAlwaysFinish ==
  /\ pc = "idle"
  /\ is_running' = FALSE /\ sent' = <<Req("FINISH", None, <<>>, 0, now)>>
  /\ Done("close", "ok")
  /\ UNCHANGED <<now, pc, until, ctlVars, cohortVars, jobVars, reservations,
                 hostVars, histVars>>

\* RJMSHandler.close.
Close ==
  /\ pc = "idle"
  /\ IF is_running
     THEN is_running' = FALSE /\ sent' = <<Req("FINISH", None, <<>>, 0, now)>>
     ELSE is_running' = is_running /\ sent' = <<>>
  /\ Done("close", "ok")
  /\ UNCHANGED <<now, pc, until, ctlVars, cohortVars, jobVars, reservations,
                 hostVars, histVars>>

\* Value of a resource state, the sort key of allocate: the more preferred
\* the state, the smaller the value.
StateValue(st) ==
  CASE st = "computing" -> 0
    [] st = "idle" -> 1
    [] st = "switching_on" -> 2
    [] st = "switching_off" -> 3
    [] st = "sleeping" -> 4

\* sorted(available, key=lambda r: r.state.value): a stable sort.
RECURSIVE SortFrom(_, _)
SortFrom(av, v) ==
  IF v > 4 THEN <<>>
  ELSE SelectSeq(av, LAMBDA r : StateValue(ResState(power, computing, r)) = v)
       \o SortFrom(av, v + 1)
\* The free resources as the agenda lists them, not sorted by state.
UnsortedAvailable == get_available_resources(reservations)

SortedAvailable == SortFrom(get_available_resources(reservations), 0)

\* allocate without the slice [:job.res]: every free resource is bound.
ChosenIdsUnsliced(j, rids) ==
  IF rids = NoIds THEN SortedAvailable ELSE rids

\* The resource ids allocate binds: the given ones, or the first job.res of
\* the free resources sorted by state.
ChosenIds(j, rids) ==
  IF rids = NoIds THEN SubSeq(SortedAvailable, 1,
                              IF res[j] < Len(SortedAvailable) THEN res[j] ELSE Len(SortedAvailable))
  ELSE rids

\* self._dispatch(RJMSEventType.JOB_ALLOCATED, job): the job with its
\* allocation, and the reservations and cohorts as they are when the
\* subscribers are called.
JobAllocated(j, al, rv, q, rd) ==
  [type |-> "JOB_ALLOCATED", job |-> j, alloc |-> al, reservations |-> rv,
   queue |-> q, ready |-> rd]

\* RJMSHandler.allocate.  rids = NoIds is resource_ids=None.
Allocate(j, rids) ==
  /\ pc = "idle"
  /\ IF j \notin Range(queue) THEN Fail("allocate", "StopIteration")
     ELSE LET ids == ChosenIds(j, rids)
          IN IF Len(ids) # res[j] THEN Fail("allocate", "InsufficientResources")
             ELSE /\ alloc' = [alloc EXCEPT ![j] = ids]
                  /\ jstate' = [jstate EXCEPT ![j] = "runnable"]
                  /\ sent' = <<>>
                  /\ IF ReserveError(reservations, ids) # "ok"
                     THEN /\ Done("allocate", ReserveError(reservations, ids))
                          /\ UNCHANGED <<reservations, queue, ready>>
                     ELSE /\ reservations' = reserve(reservations, j, ids)
                          /\ queue' = Remove(queue, j)
                          /\ ready' = Append(ready, j)
                          /\ DoneWith("allocate", "ok",
                                      <<JobAllocated(j, ids, reserve(reservations, j, ids),
                                                     queue, ready)>>)
                  /\ UNCHANGED <<simVars, ctlVars, running, completed, res, stop_time, walltime,
                                 start_time, hostVars, histVars>>

\* The loop of turn_on / turn_off with nodes whose wakeup() and sleep() never
\* raise.
RECURSIVE PowerLoopForced(_, _, _, _, _)
PowerLoopForced(on, pw, ids, i, group) ==
  IF i > Len(ids) THEN [power |-> pw, group |-> group, err |-> "ok"]
  ELSE IF ids[i] \notin Nodes THEN [power |-> pw, group |-> group, err |-> "HostNotFound"]
  ELSE PowerLoopForced(on, IF on THEN Wakeup(pw, ids[i]) ELSE Sleep(pw, ids[i]),
                       ids, i + 1, group \o NodeResources(ids[i]))

\* The loop of turn_on / turn_off over node_ids: platform.get_node(i), then
\* node.wakeup() / node.sleep(), then the resources of the node join the group
\* of the target pstate.  Stops at the first call that raises.
RECURSIVE PowerLoop(_, _, _, _, _)
PowerLoop(on, pw, ids, i, group) ==
  IF i > Len(ids) THEN [power |-> pw, group |-> group, err |-> "ok"]
  ELSE IF ids[i] \notin Nodes THEN [power |-> pw, group |-> group, err |-> "HostNotFound"]
  ELSE IF on /\ ~CanWakeup(pw, ids[i])
       THEN [power |-> pw, group |-> group, err |-> "InvalidState"]
  ELSE IF ~on /\ ~CanSleep(pw, computing, ids[i])
       THEN [power |-> pw, group |-> group, err |-> "InvalidState"]
  ELSE PowerLoop(on, IF on THEN Wakeup(pw, ids[i]) ELSE Sleep(pw, ids[i]),
                 ids, i + 1, group \o NodeResources(ids[i]))

\* RJMSHandler.turn_on (on = TRUE) and RJMSHandler.turn_off (on = FALSE): the
\* loop, then one set_resources_pstate per target pstate.
Switch(on, ids) ==
  /\ pc = "idle"
  /\ IF platform = NoPlatform
     THEN Fail(IF on THEN "turn_on" ELSE "turn_off", "AttributeError")
     ELSE LET k == PowerLoop(on, power, ids, 1, <<>>)
          IN /\ power' = k.power
             /\ pending' = (IF k.err = "ok" THEN pending \cup Range(ids) ELSE pending)
             /\ sent' = (IF k.err = "ok"
                         THEN <<Req("SET_RESOURCES_PSTATE", None, k.group,
                                    IF on THEN PsComp ELSE PsSleep, now)>>
                         ELSE <<>>)
             /\ Done(IF on THEN "turn_on" ELSE "turn_off", k.err)
             /\ pc' = (IF k.err # "ok" /\ k.power = power THEN "raised" ELSE "idle")
             /\ UNCHANGED <<is_running, now, until, ctlVars, cohortVars, jobVars,
                            reservations, computing, histVars>>
TurnOn(ids) == Switch(TRUE, ids)
TurnOff(ids) == Switch(FALSE, ids)

\* The loop of set_pstate over node_ids: platform.get_node(i), then
\* node.set_pstate(pstate_id).  Stops at the first call that raises.
RECURSIVE PstateLoop(_, _, _, _)
PstateLoop(ids, i, p, group) ==
  IF i > Len(ids) THEN [group |-> group, err |-> "ok"]
  ELSE IF ids[i] \notin Nodes THEN [group |-> group, err |-> "HostNotFound"]
  ELSE IF ~CanSetCompPstate(power, computing, ids[i], p)
       THEN [group |-> group, err |-> "InvalidState"]
  ELSE PstateLoop(ids, i + 1, p, group \o NodeResources(ids[i]))

\* RJMSHandler.set_pstate: the loop, then one set_resources_pstate.
SetPstate(ids, p) ==
  /\ pc = "idle"
  /\ IF platform = NoPlatform THEN Fail("set_pstate", "AttributeError")
     ELSE LET k == PstateLoop(ids, 1, p, <<>>)
          IN /\ sent' = (IF k.err = "ok"
                         THEN <<Req("SET_RESOURCES_PSTATE", None, k.group, p, now)>>
                         ELSE <<>>)
             /\ Done("set_pstate", k.err)
             /\ pc' = (IF k.err # "ok" THEN "raised" ELSE "idle")
             /\ UNCHANGED <<is_running, now, until, ctlVars, cohortVars, jobVars,
                            reservations, hostVars, histVars>>

(* ------------------------------------------------------------------ inputs *)
\* Sequences of length 1 or 2 over a set.
Seq12(S) == {<<x>> : x \in S} \cup {<<x, y>> : x \in S, y \in S}
\* node_ids of turn_on / turn_off / set_pstate: node 1 is no node of OneNode.
NodeIdLists == {<<0>>, <<0, 1>>, <<0, 0>>}
\* resource_ids of allocate.
ResourceIdLists == {<<0>>, <<1>>, <<BadId>>, <<0, 1>>}
\* res of a submitted job: job b is a one-resource job.
ResValues(j) == IF j = "a" THEN {1, 2, BigRes} ELSE {1}
FinalStates == {"COMPLETED_SUCCESSFULLY", "COMPLETED_WALLTIME_REACHED"}
NotifyTypes == {"no_more_static_job_to_submit", "registration_finished",
                "no_more_external_event_to_occur"}
\* The jobs a JOB_KILLED event lists: jobs the simulator is executing.
KilledLists == {ids \in Seq12(Jobs) : Len(ids) = 1 \/ ids[1] # ids[2]}
\* simulation_time of start: None, a negative time, zero, a time of the run.
NoBound == [given |-> FALSE, st |-> 0]
StartArgs == {NoBound} \cup {[given |-> TRUE, st |-> st] : st \in -1..MaxTime}
\* simulation_time of a start that sets no time bound: None, -1, 0.
Unbounded == {a \in StartArgs : ~a.given \/ a.st <= 0}
\* The end of the static submissions is notified once the jobs of the
\* workload are submitted.
NotifyInOrder(ty, workload) ==
  ty = "no_more_external_event_to_occur" \/ seen = workload

(* -------------------------------------------------------------------- Next *)
\* The steps of a controller whose start() gets its simulation_time from args
\* and its platform from platforms, and whose simulator submits the jobs of
\* workload.
NextOn(args, platforms, workload) ==
  \/ \E a \in args, e \in FirstBatch, pf \in platforms : Start(a.given, a.st, e, pf)
  \/ \E j \in workload : \E n \in ResValues(j) : OnJobSubmitted(j, n)
  \/ \E j \in running, fs \in FinalStates : OnJobCompleted(j, fs)
  \/ \E ids \in KilledLists, jid \in Jobs \cup {None} :
        /\ Range(ids) \subseteq running
        /\ jid \in Range(ids) \cup {None}
        /\ OnJobKilled(ids, jid)
  \/ \E ns \in (SUBSET Nodes) \ {{}}, p \in PStates : OnResourceStateChanged(ns, p)
  \/ OnRequestedCall
  \/ \E ty \in NotifyTypes : NotifyInOrder(ty, workload) /\ OnNotify(ty)
  \/ OnSimulationEnds
  \/ \E u \in -1..MaxTime, t \in 0..MaxTime : ProceedTime(u, t)
  \/ \E t \in 0..MaxTime : BatchDone(t)
  \/ Close
  \/ \E j \in Jobs, rids \in ResourceIdLists \cup {NoIds} : Allocate(j, rids)
  \/ \E ids \in NodeIdLists : TurnOn(ids)
  \/ \E ids \in NodeIdLists : TurnOff(ids)
  \/ \E ids \in {<<0>>, <<1>>}, p \in {PsAlt, PsSleep} : SetPstate(ids, p)

\* The default controller (use_batsim=False) on the one-node platform, started
\* without a time bound.
Init == InitOn(FALSE)
Next == NextOn(Unbounded, {OneNode}, Jobs)
Spec == Init /\ [][Next]_vars

\* The same controller on the two-node platform with the single job a,
\* started with any simulation_time.
NextTwo == NextOn(StartArgs, {TwoNodes}, {"a"})
SpecTwo == Init /\ [][NextTwo]_vars

(* ------------------------------------------------- a responsive adapter *)
\* The adapter confirms the request in flight for the node n: a
\* RESOURCE_STATE_CHANGED event with the sleep pstate for a node that is
\* switching-off, with the computation pstate for one that is switching-on.
Confirm(n) ==
  /\ n \in pending
  /\ OnResourceStateChanged({n}, IF power[n] = "switching_off" THEN PsSleep ELSE PsComp)

\* The policy lets the simulation proceed: a proceed_time that does not raise.
Proceed == \E u \in -1..MaxTime, t \in 0..MaxTime : ProceedTime(u, t) /\ pc' = "batch"

\* A simulation that is started once and never ended (no close, no
\* SIMULATION_ENDS, no notification), where the adapter sends
\* RESOURCE_STATE_CHANGED only to confirm a request.  A call that raises
\* without having changed anything leaves the controller as it was: the policy
\* goes on from there.
NextLive ==
  \/ \E e \in FirstBatch :
        /\ e.kind \in {"none", "submit"}
        /\ Start(FALSE, 0, e, OneNode) /\ pc' # "raised"
  \/ \E j \in Jobs : \E n \in ResValues(j) : OnJobSubmitted(j, n)
  \/ \E j \in running, fs \in FinalStates : OnJobCompleted(j, fs)
  \/ \E n \in NodeIds : Confirm(n)
  \/ Proceed
  \/ \E t \in 0..MaxTime : BatchDone(t)
  \/ \E j \in Jobs, rids \in ResourceIdLists \cup {NoIds} :
        Allocate(j, rids) /\ pc' # "raised"
  \/ \E ids \in NodeIdLists : TurnOn(ids) /\ pc' # "raised"
  \/ \E ids \in NodeIdLists : TurnOff(ids) /\ pc' # "raised"

\* The adapter eventually confirms every request in flight, a batch of events
\* comes to its end (proceed_simulation returns), and the policy keeps calling
\* proceed_time, so the controller keeps processing events.
SpecLive ==
  /\ Init /\ [][NextLive]_vars
  /\ WF_vars(Proceed)
  /\ WF_vars(\E t \in 0..MaxTime : BatchDone(t))
  /\ \A n \in NodeIds : SF_vars(Confirm(n))

(* ================================================================ claims *)
\* The jobs that hold resources: allocated and not yet terminated.
Held == Range(ready) \cup running
HostsOf(j) == {Parent(r) : r \in Range(alloc[j]) \cap Resources}
\* The operations that end with a start_ready_jobs sweep.
SweepOps == {"proceed_time", "job_completed", "job_killed", "resource_state_changed"}

(* C1: no resource is held by two jobs at once: no resource id is in the    *)
(* allocations of two distinct jobs that are in ready or running, and an    *)
(* allocate whose Agenda.reserve meets an already reserved resource fails   *)
(* and leaves every reservation entry as it was.                            *)
NoDoubleHold ==
  \A j1 \in Held, j2 \in Held :
    j1 # j2 => Range(alloc[j1]) \cap Range(alloc[j2]) = {}
C2_RunningOnComputing ==
  \A j \in running : \A n \in HostsOf(j) : HostState(power, computing, n) = "computing"
\* A job is running while a turn_off of its node was refused, or while the
\* simulator reported the sleep pstate.
C2_Witness ==
  /\ running # {}
  /\ \/ lastOp = "turn_off" /\ result = "InvalidState"
     \/ lastOp = "resource_state_changed"

(* C3: the number of jobs in queue, ready, running and completed plus the   *)
(* number of rejected jobs equals the number of JOB_SUBMITTED events seen.  *)
C3_Conservation ==
  Len(queue) + Len(ready) + Cardinality(running) + Len(completed) + nb_rejected
    = Cardinality(seen)

(* C4: a job moves through the cohorts only forward: none -> queue (or      *)
(* rejected) -> ready -> running -> completed (or dropped), one cohort at a *)
(* time, and its lifecycle state only along submitted -> runnable ->        *)
(* running -> a final state; no cohort and no state is entered twice.  A     *)
(* successful start() begins a new run with new jobs.                       *)
CohortsOf(j) ==
  (IF j \in Range(queue) THEN {"queue"} ELSE {})
  \cup (IF j \in Range(ready) THEN {"ready"} ELSE {})
  \cup (IF j \in running THEN {"running"} ELSE {})
  \cup (IF j \in Range(completed) THEN {"completed"} ELSE {})
CohortSteps ==
  {<<{}, {"queue"}>>, <<{"queue"}, {"ready"}>>, <<{"ready"}, {"running"}>>,
   <<{"running"}, {"completed"}>>, <<{"running"}, {}>>}
StateRank(st) ==
  CASE st = "none" -> 0
    [] st = "submitted" -> 1
    [] st = "runnable" -> 2
    [] st = "running" -> 3
    [] OTHER -> 4
C4_Lifecycle ==
  [][(lastOp' = "start" /\ result' = "ok") \/
     \A j \in Jobs :
       /\ Cardinality(CohortsOf(j)') <= 1
       /\ CohortsOf(j)' # CohortsOf(j) =>
            /\ <<CohortsOf(j), CohortsOf(j)'>> \in CohortSteps
            /\ CohortsOf(j) = {} => j \notin seen
            /\ CohortsOf(j)' = {"running"} => jstate'[j] = "running"
       /\ jstate'[j] # jstate[j] => StateRank(jstate'[j]) > StateRank(jstate[j])]_vars
\* Both jobs went all the way: one completed, the other was started too.
C4_Witness ==
  /\ Len(completed) = 1
  /\ \E j \in Jobs : j \notin Range(completed) /\ jstate[j] = "running"

\* The SET_RESOURCES_PSTATE requests of the last operation for resources of n.
PowerReqs(n) ==
  SelectSeq(sent, LAMBDA q : /\ q.type = "SET_RESOURCES_PSTATE"
                             /\ \E i \in DOMAIN q.rs : q.rs[i] \in Resources
                                                        /\ Parent(q.rs[i]) = n)
ExecReqs(j) == SelectSeq(sent, LAMBDA q : q.type = "EXECUTE_JOB" /\ q.job = j)
\* The last operation ran the start_ready_jobs sweep.
Swept == lastOp \in SweepOps /\ result \in {"ok", "InvalidArgument"}
AllHostsOn(pw, j) == \A n \in HostsOf(j) : pw[n] = "on"

(* C5: an EXECUTE_JOB request is issued for a job, and the job enters       *)
(* running, only when every node of its allocation is powered on; a ready   *)
(* job with a node that is not stays in ready; and a sweep that meets a     *)
(* switching-on or switching-off node leaves it alone and issues no power   *)
(* request for it.                                                          *)
C5_WakeupGating ==
  [][/\ \A j \in Jobs :
          (j \in running' \ running \/ Len(ExecReqs(j)') > 0) => AllHostsOn(power, j)'
     /\ Swept' =>
          /\ \A j \in Range(ready) : ~AllHostsOn(power', j) => j \in Range(ready')
          /\ \A n \in Nodes :
               (/\ power[n] \in {"switching_on", "switching_off"}
                /\ lastOp' = "resource_state_changed" => power'[n] = power[n])
               => power'[n] = power[n] /\ Len(PowerReqs(n)') = 0]_vars
\* A sweep met a ready job on a switching node: no request, the job waits.
C5_Witness ==
  /\ Swept /\ sent = <<>>
  /\ \E j \in Range(ready) : \E n \in HostsOf(j) :
       power[n] \in {"switching_on", "switching_off"}

(* C6: the processing of a RESOURCE_STATE_CHANGED event starts every ready  *)
(* job whose nodes are all powered on once the event is applied: the job    *)
(* is in running with start time now and one EXECUTE_JOB request for it has  *)
(* been issued when the handler returns.                                    *)
C6_StartOnConfirmation ==
  [][lastOp' = "resource_state_changed" =>
       \A j \in Range(ready) :
         AllHostsOn(power', j) =>
           /\ j \in running' /\ j \notin Range(ready')
           /\ jstate'[j] = "running" /\ start_time'[j] = now'
           /\ Len(ExecReqs(j)') = 1
           /\ ExecReqs(j)'[1].rs = alloc[j]]_vars
\* The event handler has started a job that was waiting in ready.
C6_Witness ==
  /\ lastOp = "resource_state_changed"
  /\ \E j \in running : Len(ExecReqs(j)) = 1 /\ start_time[j] = now

(* C7: a sweep that meets a ready job with a sleeping node wakes that node   *)
(* exactly once: the node is switching-on afterwards, exactly one           *)
(* SET_RESOURCES_PSTATE request to its computation pstate covers it, also    *)
(* when several resources of the job or several ready jobs share the node,  *)
(* and the job stays in ready.                                              *)
C7_WakeOnce ==
  [][Swept' =>
       \A n \in Nodes :
         (power[n] = "sleeping" /\ \E j \in Range(ready) : n \in HostsOf(j)) =>
           /\ power'[n] = "switching_on"
           /\ Len(PowerReqs(n)') = 1
           /\ PowerReqs(n)'[1].rs = NodeResources(n)
           /\ PowerReqs(n)'[1].ps = FirstCompPs(n)
           /\ \A j \in Range(ready) : n \in HostsOf(j) => j \in Range(ready')]_vars
\* A sweep woke a node that a ready job holds two resources of, or that two
\* ready jobs share.
C7_Witness ==
  /\ Swept
  /\ \E n \in Nodes :
       /\ power[n] = "switching_on" /\ Len(PowerReqs(n)) = 1
       /\ \/ \E j \in Range(ready) : Len(alloc[j]) = 2 /\ HostsOf(j) = {n}
          \/ Len(ready) = 2 /\ \A j \in Range(ready) : n \in HostsOf(j)

(* C8: an allocate that fails (unknown job, wrong number of resources,      *)
(* unknown or reserved resource) changes no cohort, no allocation and no    *)
(* reservation entry.                                                       *)
C8_FailedAllocateUnchanged ==
  [][(lastOp' = "allocate" /\ result' # "ok") =>
       UNCHANGED <<queue, ready, running, completed, alloc, reservations>>]_vars

(* C9: an allocate that succeeds on nodes that are all powered on has       *)
(* started the job when it returns: the job is in running with start time   *)
(* now and exactly one EXECUTE_JOB request was issued for it.               *)
C9_AllocateStartsJob ==
  [][(lastOp' = "allocate" /\ result' = "ok") =>
       \A j \in Range(queue) \ Range(queue') :
         AllHostsOn(power, j)' =>
           /\ j \in running' /\ start_time'[j] = now'
           /\ Len(ExecReqs(j)') = 1]_vars

(* C10: while no simulation is running, proceed_time, allocate, turn_on,    *)
(* turn_off and set_pstate fail, change no cohort, no reservation and no    *)
(* node state, and issue no request.                                        *)
C10_NotRunningRejects ==
  [][(~is_running /\ lastOp' \in {"proceed_time", "allocate", "turn_on",
                                  "turn_off", "set_pstate"}) =>
       /\ result' # "ok"
       /\ sent' = <<>>
       /\ UNCHANGED <<queue, ready, running, completed, alloc, reservations,
                      power, computing>>]_vars

\* The number of resources that are free in the agenda.
FreeCount == Cardinality({r \in Resources : reservations[r] = None})
AllocateArgs == ResourceIdLists \cup {NoIds}

(* C11: allocate of a queued job fails with InsufficientResources exactly   *)
(* when the number of ids to bind differs from job.res: explicit             *)
(* resource_ids of another length, or resource_ids omitted while fewer than *)
(* job.res resources are free; omitted with at least job.res free           *)
(* resources, allocate succeeds and binds job.res resources.                *)
C11_InsufficientResources ==
  [][\A j \in Jobs, rids \in AllocateArgs :
       (lastOp' = "allocate" /\ j \in Range(queue) /\ Allocate(j, rids)) =>
         /\ result' = "InsufficientResources" <=>
              (IF rids = NoIds THEN FreeCount < res[j] ELSE Len(rids) # res[j])
         /\ (rids = NoIds /\ FreeCount >= res[j]) =>
              /\ result' = "ok"
              /\ j \in Range(ready')
              /\ Len(alloc'[j]) = res[j]]_vars
\* An allocate was refused while fewer resources were free than the job asks.
C11_Witness ==
  /\ lastOp = "allocate" /\ result = "InsufficientResources"
  /\ \E j \in Range(queue) : FreeCount < res[j] /\ FreeCount > 0

\* The free resources, and the sort key of one: the preference of the state
\* it has from its node, then its id.
FreeResources == {r \in Resources : reservations[r] = None}
Preference(r) == StateValue(ResState(power, computing, r))
Before(r1, r2) ==
  Preference(r1) < Preference(r2) \/ (Preference(r1) = Preference(r2) /\ r1 < r2)

(* C12: an allocate without resource_ids that succeeds binds exactly        *)
(* job.res distinct resources, all free in the agenda at the call, listed   *)
(* in increasing order of (state preference, resource id), and every free   *)
(* resource it leaves out comes after every resource it binds in that       *)
(* order: a sleeping or switching resource is bound only when the free      *)
(* resources of more preferred states are all bound.                        *)
C12_GreedyChoice ==
  [][\A j \in Jobs :
       (/\ lastOp' = "allocate" /\ result' = "ok"
        /\ j \in Range(queue) /\ Allocate(j, NoIds)) =>
         LET al == alloc'[j] IN
         /\ Len(al) = res[j]
         /\ Range(al) \subseteq FreeResources
         /\ \A i \in 1..Len(al), k \in 1..Len(al) : i < k => Before(al[i], al[k])
         /\ \A r \in Range(al), q \in FreeResources \ Range(al) : Before(r, q)]_vars
\* Job a of one resource was bound to resource 1 although resource 0 is free:
\* the node of resource 0 is not powered on.
C12_Witness ==
  /\ lastOp = "allocate" /\ result = "ok"
  /\ platform = TwoNodes
  /\ "a" \in Range(ready) /\ alloc["a"] = <<1>>
  /\ reservations[0] = None /\ power[0] # "on" /\ power[1] = "on"

RejectReqs(j) == SelectSeq(sent, LAMBDA q : q.type = "REJECT_JOB" /\ q.job = j)

(* C13: a JOB_SUBMITTED event of a job with res > nb_resources issues one   *)
(* REJECT_JOB for it and leaves the cohorts as they are, and the job is in  *)
(* no cohort ever after; any other submission issues no REJECT_JOB and      *)
(* appends the job at the tail of queue, so queue is in submission order.   *)
C13_SubmitOrReject ==
  [][/\ \A j \in Jobs : \A n \in ResValues(j) :
          (lastOp' = "job_submitted" /\ OnJobSubmitted(j, n)) =>
            IF n > nb_resources
            THEN /\ Len(RejectReqs(j)') = 1 /\ Len(sent') = 1
                 /\ UNCHANGED cohortVars
                 /\ CohortsOf(j)' = {}
            ELSE /\ sent' = <<>>
                 /\ queue' = Append(queue, j)
                 /\ UNCHANGED <<ready, running, completed>>
     /\ \A j \in seen' : res'[j] > nb_resources' => CohortsOf(j)' = {}
     /\ \A i \in 1..Len(queue'), k \in 1..Len(queue') :
          i < k => queue'[i] \in SubmittedBefore(queue'[k])]_vars
\* Job a was rejected, then job b was submitted and is the queue.
C13_Witness ==
  /\ lastOp = "job_submitted" /\ nb_rejected = 1
  /\ res["a"] > nb_resources /\ CohortsOf("a") = {}
  /\ queue = <<"b">>

(* C14: after a JOB_COMPLETED(job, final state) event of a running job the  *)
(* job is out of running and at the tail of completed, with stop_time = now *)
(* >= start_time and the final state of the event; every resource of its    *)
(* allocation is free in the agenda and no longer computing, and every      *)
(* other reservation entry is as it was.                                    *)
C14_Completion ==
  [][\A j \in Jobs, fs \in FinalStates :
       (lastOp' = "job_completed" /\ j \in running /\ OnJobCompleted(j, fs)) =>
         /\ j \notin running' /\ completed' = Append(completed, j)
         /\ stop_time'[j] = now' /\ start_time'[j] # NoTime
         /\ stop_time'[j] >= start_time'[j]
         /\ jstate'[j] = fs
         /\ \A r \in Range(alloc[j]) : reservations'[r] = None /\ r \notin computing'
         /\ \A r \in Resources \ Range(alloc[j]) : reservations'[r] = reservations[r]]_vars
\* A job completed at a later time than it started, while the other job
\* holds a resource.
C14_Witness ==
  /\ lastOp = "job_completed" /\ result = "ok"
  /\ \E j \in Range(completed), k \in Held :
       /\ stop_time[j] = now /\ start_time[j] < now
       /\ \E r \in Resources : reservations[r] = k

(* C15: after a JOB_KILLED(job_ids) event every listed job is out of        *)
(* running and in completed with the state completed-killed, and its        *)
(* resources are free in the agenda and no longer computing, also when the  *)
(* list names more than one job.                                            *)
C15_Kill ==
  [][\A ids \in KilledLists, jid \in Jobs \cup {None} :
       (/\ Range(ids) \subseteq running
        /\ jid \in Range(ids) \cup {None}
        /\ OnJobKilled(ids, jid)) =>
         \A j \in Range(ids) :
           /\ j \notin running' /\ j \in Range(completed')
           /\ jstate'[j] = "COMPLETED_KILLED"
           /\ \A r \in Range(alloc[j]) : reservations'[r] = None /\ r \notin computing']_vars

(* C16: close never fails; while the simulation runs it issues exactly one  *)
(* FINISH and is_running becomes false; when nothing runs (before start, or *)
(* at a second close) it issues no request and changes no controller state. *)
FinishReqs == SelectSeq(sent, LAMBDA q : q.type = "FINISH")
C16_CloseIdempotent ==
  [][Close =>
       /\ result' = "ok"
       /\ IF is_running
          THEN Len(FinishReqs') = 1 /\ Len(sent') = 1 /\ ~is_running'
          ELSE /\ sent' = <<>>
               /\ UNCHANGED <<is_running, now, pc, until, ctlVars, cohortVars,
                              jobVars, reservations, hostVars, histVars>>]_vars
\* A close after the simulation was started and has stopped: nothing is sent.
C16_Witness ==
  /\ lastOp = "close" /\ result = "ok" /\ sent = <<>>
  /\ ~is_running /\ platform # NoPlatform

(* C17: proceed_time(until) with until < 0 or with a given until <=         *)
(* current_time fails with InvalidArgument, and the failed call advances no *)
(* time, issues no request and moves no job between cohorts.                *)
C17_ProceedTimeRejects ==
  [][\A u \in -1..MaxTime, t \in 0..MaxTime :
       (/\ is_running /\ u # 0 /\ (u < 0 \/ u <= now)
        /\ ProceedTime(u, t)) =>
         /\ result' = "InvalidArgument"
         /\ now' = now /\ sent' = <<>>
         /\ UNCHANGED cohortVars]_vars

(* C18: whenever proceed_time returns with submitter_ended set and queue,   *)
(* ready and running all empty, the simulation has been driven to its end,  *)
(* so is_running is false on return, whatever the backend; and the drain is *)
(* not entered while one of the three cohorts is non-empty.                 *)
CohortsEmpty == queue = <<>> /\ ready = <<>> /\ running = {}
C18_DrainAtEnd ==
  [][/\ (pc \in {"batch", "drain"} /\ pc' = "idle" /\ submitter_ended' /\ CohortsEmpty')
          => ~is_running'
     /\ (pc = "batch" /\ pc' = "drain") => CohortsEmpty]_vars

(* C19: with a simulation_time bound, a REQUESTED_CALL handled at a time    *)
(* now >= simulation_time issues FINISH and leaves is_running false,        *)
(* whatever jobs are in queue, ready or running; a REQUESTED_CALL handled   *)
(* at now < simulation_time does not end the simulation.                    *)
C19_ForcedEnd ==
  [][OnRequestedCall =>
       IF simulation_time # 0 /\ now >= simulation_time
       THEN /\ Len(FinishReqs') = 1 /\ ~is_running'
            /\ UNCHANGED cohortVars
       ELSE is_running' /\ FinishReqs' = <<>>]_vars
\* The requested call at the bound ended the simulation while a job runs.
C19_Witness ==
  /\ lastOp = "requested_call" /\ ~is_running
  /\ simulation_time # 0 /\ now >= simulation_time
  /\ running # {}
  /\ Len(FinishReqs) = 1

(* C20: start with a simulation_time <= 0, zero included, fails with        *)
(* InvalidArgument, and start while a simulation is in progress fails with  *)
(* AlreadyRunning; in both cases the adapter is not started, no request is  *)
(* issued and the cohorts, the simulation_time bound and submitter_ended    *)
(* are unchanged.                                                           *)
C20_StartRejects ==
  [][\A a \in StartArgs, e \in FirstBatch, pf \in {OneNode, TwoNodes} :
       (/\ is_running \/ (a.given /\ a.st <= 0)
        /\ Start(a.given, a.st, e, pf)) =>
         /\ result' = (IF is_running THEN "AlreadyRunning" ELSE "InvalidArgument")
         /\ sent' = <<>>
         /\ UNCHANGED <<is_running, cohortVars, simulation_time, submitter_ended>>]_vars

\* The state of node n.
StateOf(n) == HostState(power, computing, n)
\* The jobs the step has started on node n.
StartedOn(n) == {j \in running' \ running : n \in HostsOf(j)'}

\* The ready jobs that hold a resource of node n.
WaitingOn(n) == {j \in Range(ready) : n \in HostsOf(j)}

(* C21: the power round trip of a host: a successful turn_off finds the     *)
(* host idle and leaves it switching-off; the RESOURCE_STATE_CHANGED event  *)
(* to its sleep pstate leaves it sleeping; a successful turn_on leaves it   *)
(* switching-on; the RESOURCE_STATE_CHANGED event to its default            *)
(* computation pstate leaves it idle.  Each step goes to the named state    *)
(* only; the sweep that follows an event in the same handler takes the next *)
(* step for a waiting job: it wakes the sleeping host, or starts the job on *)
(* the idle host.                                                           *)
C21_PowerRoundTrip ==
  [][/\ \A ids \in NodeIdLists :
          (lastOp' = "turn_off" /\ result' = "ok" /\ TurnOff(ids)) =>
            \A n \in Range(ids) : StateOf(n) = "idle" /\ StateOf(n)' = "switching_off"
     /\ \A ids \in NodeIdLists :
          (lastOp' = "turn_on" /\ result' = "ok" /\ TurnOn(ids)) =>
            \A n \in Range(ids) : StateOf(n) = "sleeping" /\ StateOf(n)' = "switching_on"
     /\ \A ns \in (SUBSET Nodes) \ {{}}, p \in PStates :
          (lastOp' = "resource_state_changed" /\ OnResourceStateChanged(ns, p)) =>
            \A n \in ns :
              /\ (StateOf(n) = "switching_off" /\ p = FirstSleepPs(n)) =>
                   /\ ConfirmAll(power, ns, p)[n] = "sleeping"
                   /\ StateOf(n)' = (IF WaitingOn(n) = {} THEN "sleeping"
                                     ELSE "switching_on")
              /\ (StateOf(n) = "switching_on" /\ p = FirstCompPs(n)) =>
                   /\ ConfirmAll(power, ns, p)[n] = "on" /\ power'[n] = "on"
                   /\ StateOf(n)' = (IF StartedOn(n) = {} THEN "idle"
                                     ELSE "computing")]_vars
\* Three legs of the trip are done: a turn_on has put a node in switching-on,
\* a state that is entered from sleeping only.
C21_Witness ==
  /\ lastOp = "turn_on" /\ result = "ok"
  /\ \E n \in Nodes : StateOf(n) = "switching_on" /\ Len(PowerReqs(n)) = 1

(* C22: a turn_off or turn_on over a list of hosts one of which has a       *)
(* resource computing a running job fails with InvalidState, that host      *)
(* stays computing, and no SET_RESOURCES_PSTATE request is issued for it.   *)
C22_ComputingHostRefuses ==
  [][\A on \in BOOLEAN, ids \in NodeIdLists :
       (/\ lastOp' \in {"turn_on", "turn_off"}
        /\ Range(ids) \subseteq Nodes
        /\ \E n \in Range(ids) : StateOf(n) = "computing"
        /\ Switch(on, ids)) =>
         /\ result' = "InvalidState"
         /\ \A n \in Range(ids) :
              StateOf(n) = "computing" =>
                StateOf(n)' = "computing" /\ Len(PowerReqs(n)') = 0]_vars
\* A turn_off over two hosts was refused for the second, which is computing
\* the running job, after the first was put to switching-off.
C22_Witness ==
  /\ lastOp = "turn_off" /\ result = "InvalidState" /\ sent = <<>>
  /\ platform = TwoNodes
  /\ StateOf(0) = "switching_off" /\ StateOf(1) = "computing"
  /\ \E j \in running : HostsOf(j) = {1}

(* C23: after any turn_on / turn_off over a list of hosts, returned or      *)
(* failed part-way, every host the call moved to switching-on or            *)
(* switching-off is covered by exactly one SET_RESOURCES_PSTATE request of  *)
(* that call: no host is left in a switching state with no request sent.    *)
C23_SwitchCoupled ==
  [][lastOp' \in {"turn_on", "turn_off"} =>
       \A n \in Nodes :
         (power'[n] # power[n] /\ power'[n] \in {"switching_on", "switching_off"})
           => Len(PowerReqs(n)') = 1]_vars

(* ========================================================= agenda queries *)
\* A platform of two nodes where the resources of node 0 are not next to each
\* other in id order.
Interleaved == [r \in {0, 1, 2} |-> IF r = 1 THEN 1 ELSE 0]

\* A float that is the quotient of two integers.
Frac(n, d) == [num |-> n, den |-> d]

\* Agenda.get_progress, the body of the loop for resource r: 0 if free,
\* 1 - runtime / walltime if its job is running (runtime / inf is 0.0), else 1.
ProgressOf(rv, js, st, wt, r, t) ==
  IF rv[r] = None THEN Frac(0, 1)
  ELSE IF js[rv[r]] = "running"
       THEN IF wt[rv[r]] = Infinity THEN Frac(1, 1)
            ELSE Frac(wt[rv[r]] - (t - st[rv[r]]), wt[rv[r]])
  ELSE Frac(1, 1)
\* Agenda.get_progress: one entry per key of reservations, in ascending id.
get_progress(rv, js, st, wt, t) ==
  [i \in 1..Cardinality(DOMAIN rv) |-> ProgressOf(rv, js, st, wt, i - 1, t)]

\* Agenda.get_reserved_time, the body of the loop for resource r.
ReservedOf(rv, js, st, wt, r, t) ==
  IF rv[r] = None THEN 0
  ELSE IF js[rv[r]] = "running"
       THEN IF wt[rv[r]] = Infinity THEN Infinity
            ELSE st[rv[r]] + wt[rv[r]] - t
  ELSE wt[rv[r]]
\* Agenda.get_reserved_time that lists the resources in descending id.
ReservedTimeReversed(rv, js, st, wt, t) ==
  [i \in 1..Cardinality(DOMAIN rv) |->
     ReservedOf(rv, js, st, wt, Cardinality(DOMAIN rv) - i, t)]

\* Agenda.get_reserved_time: one entry per key of reservations, in ascending id.
get_reserved_time(rv, js, st, wt, t) ==
  [i \in 1..Cardinality(DOMAIN rv) |-> ReservedOf(rv, js, st, wt, i - 1, t)]

\* Agenda.get_available_nodes: itertools.groupby over the reservations in
\* ascending resource id, keyed by parent_id, makes a group of each run of
\* consecutive resources of one node; the node of a group whose reservations
\* are all None is appended.  key is the node of the group at hand (NoGroup
\* before the first resource), free whether its reservations so far are None.
NoGroup == -1
RECURSIVE GroupLoop(_, _, _, _, _, _)
GroupLoop(rv, pf, r, key, free, nodes) ==
  IF r >= Cardinality(DOMAIN rv)
  THEN IF key # NoGroup /\ free THEN Append(nodes, key) ELSE nodes
  ELSE IF key # NoGroup /\ pf[r] = key
       THEN GroupLoop(rv, pf, r + 1, key, free /\ rv[r] = None, nodes)
  ELSE GroupLoop(rv, pf, r + 1, pf[r], rv[r] = None,
                 IF key # NoGroup /\ free THEN Append(nodes, key) ELSE nodes)
get_available_nodes(rv, pf) == GroupLoop(rv, pf, 0, NoGroup, TRUE, <<>>)

\* RJMSHandler.get_progress / get_reserved_time / get_available_nodes: the
\* assertion that there is an agenda, then the query of the agenda at the
\* current time.  The value returned is in result.
Query(op, value) ==
  /\ pc = "idle"
  /\ IF platform = NoPlatform THEN Fail(op, "AssertionError")
     ELSE /\ Done(op, value)
          /\ sent' = <<>>
          /\ UNCHANGED <<simVars, ctlVars, cohortVars, jobVars, reservations,
                         hostVars, histVars>>
GetProgress ==
  Query("get_progress", get_progress(reservations, jstate, start_time, walltime, now))
GetReservedTime ==
  Query("get_reserved_time",
        get_reserved_time(reservations, jstate, start_time, walltime, now))
GetAvailableNodes ==
  Query("get_available_nodes", get_available_nodes(reservations, platform))

\* Largest current time of an agenda query.
AgendaTime == 3

\* The resources job j holds under the reservations rv, in ascending id.
RECURSIVE HeldFrom(_, _, _)
HeldFrom(rv, j, r) ==
  IF r >= Cardinality(DOMAIN rv) THEN <<>>
  ELSE (IF rv[r] = j THEN <<r>> ELSE <<>>) \o HeldFrom(rv, j, r + 1)

\* The controller between two policy calls of a running simulation, at time t
\* on platform pf: the reservations are rv, every job that has resources is
\* in ready (runnable) or in running (started at st[j] <= t, its resources
\* computing), the others wait in queue; the walltimes are wt.
AgendaState(pf, rv, runs, st, wt, t) ==
  /\ is_running = TRUE /\ now = t /\ pc = "idle" /\ until = 0
  /\ use_batsim = FALSE
  /\ simulation_time = 0 /\ submitter_ended = FALSE /\ platform = pf
  /\ reservations = rv
  /\ alloc = [j \in Jobs |-> HeldFrom(rv, j, 0)]
  /\ queue = SelectSeq(<<"a", "b">>, LAMBDA j : HeldFrom(rv, j, 0) = <<>>)
  /\ ready = SelectSeq(<<"a", "b">>, LAMBDA j : HeldFrom(rv, j, 0) # <<>> /\ j \notin runs)
  /\ running = runs
  /\ completed = <<>>
  /\ res = [j \in Jobs |-> IF HeldFrom(rv, j, 0) = <<>> THEN 1 ELSE Len(HeldFrom(rv, j, 0))]
  /\ start_time = [j \in Jobs |-> IF j \in runs THEN st[j] ELSE NoTime]
  /\ stop_time = [j \in Jobs |-> NoTime]
  /\ walltime = wt
  /\ jstate = [j \in Jobs |-> IF j \in runs THEN "running"
                               ELSE IF HeldFrom(rv, j, 0) # <<>> THEN "runnable"
                               ELSE "submitted"]
  /\ power = [n \in NodeIds |-> "on"]
  /\ pending = {}
  /\ computing = {r \in DOMAIN rv : rv[r] \in runs}
  /\ sent = <<>> /\ dispatched = <<>> /\ lastOp = "batch_done" /\ result = "ok"
  /\ seen = Jobs /\ nb_rejected = 0
  /\ execd = [j \in Jobs |-> IF j \in runs THEN 1 ELSE 0]

\* The inputs of the agenda queries.
InitAgenda ==
  \E pf \in {OneNode, TwoNodes, Interleaved}, t \in 0..AgendaTime :
    \E rv \in [DOMAIN pf -> Jobs \cup {None}] :
      \E runs \in SUBSET {j \in Jobs : \E r \in DOMAIN pf : rv[r] = j} :
        \E st \in [Jobs -> 0..t], wt \in [Jobs -> {1, 2, Infinity}] :
          /\ \A j \in Jobs \ runs : st[j] = 0
          /\ wt["b"] # 1
          /\ AgendaState(pf, rv, runs, st, wt, t)
NextAgenda == GetProgress \/ GetReservedTime \/ GetAvailableNodes
SpecAgenda == InitAgenda /\ [][NextAgenda]_vars

(* C24: the progress the agenda reports at the current time is never        *)
(* negative: for a resource reserved by a running job with a finite         *)
(* walltime it is 1 - (now - start_time) / walltime while now < start_time  *)
(* + walltime and exactly 0 from then on; it is 0 for a free resource and 1 *)
(* for a resource reserved by a job that is not yet running.                *)
C24_ProgressNotNegative ==
  lastOp = "get_progress" =>
    \A r \in Resources :
      LET v == result[r + 1]
          j == reservations[r]
      IN /\ v.den > 0 /\ v.num >= 0
         /\ IF j = None THEN v.num = 0
            ELSE IF j \notin running THEN v.num = v.den
            ELSE IF walltime[j] = Infinity THEN TRUE
            ELSE IF now < start_time[j] + walltime[j]
                 THEN v.num * walltime[j] = (walltime[j] - (now - start_time[j])) * v.den
                 ELSE v.num = 0

\* A job of walltime 100 started at time 0 on resource 0 of two resources.
ExampleJobs == [j \in Jobs |-> IF j = "a" THEN [state |-> "running", st |-> 0, wt |-> 100]
                                ELSE [state |-> "none", st |-> NoTime, wt |-> NoTime]]
ExampleReservedTime ==
  get_reserved_time([r \in {0, 1} |-> IF r = 0 THEN "a" ELSE None],
                    [j \in Jobs |-> ExampleJobs[j].state],
                    [j \in Jobs |-> ExampleJobs[j].st],
                    [j \in Jobs |-> ExampleJobs[j].wt], 10)

(* C25: the reserved time the agenda reports at the current time lists the  *)
(* resources in ascending id and gives, per resource, 0 if it is free,      *)
(* start_time + walltime - now if its job is running (infinite if the job   *)
(* has no walltime) and the walltime of the job if the job is not yet       *)
(* running; a job of walltime 100 started at 0 on resource 0 of two         *)
(* resources gives [90, 0] at time 10.                                      *)
C25_ReservedTime ==
  /\ ExampleReservedTime = <<90, 0>>
  /\ lastOp = "get_reserved_time" =>
       /\ Len(result) = nb_resources
       /\ \A r \in Resources :
            LET j == reservations[r]
            IN result[r + 1] =
                 (IF j = None THEN 0
                  ELSE IF j \notin running THEN walltime[j]
                  ELSE IF walltime[j] = Infinity THEN Infinity
                  ELSE start_time[j] + walltime[j] - now)
\* A query at a time after the start of a running job with a walltime, while
\* another resource is free and a third is held by a job that waits in ready.
C25_Witness ==
  /\ lastOp = "get_reserved_time" /\ nb_resources = 3
  /\ \E r1, r2, r3 \in Resources :
       /\ reservations[r1] = None /\ r1 > r2
       /\ reservations[r2] \in running /\ walltime[reservations[r2]] # Infinity
       /\ start_time[reservations[r2]] < now
       /\ result[r2 + 1] = start_time[reservations[r2]] + walltime[reservations[r2]] - now
       /\ reservations[r3] \in Range(ready)
       /\ result[r3 + 1] = walltime[reservations[r3]]

\* The nodes all of whose resources are free in the agenda.
FreeNodes == {n \in Nodes : \A r \in Resources : Parent(r) = n => reservations[r] = None}

(* C26: available_nodes() returns each host once if all of its resources    *)
(* are free in the agenda and not at all if one of them is reserved, for    *)
(* every assignment of resource ids to hosts, also when the resource ids of *)
(* a host are not contiguous.                                               *)
C26_AvailableNodes ==
  lastOp = "get_available_nodes" =>
    /\ Range(result) = FreeNodes
    /\ Len(result) = Cardinality(FreeNodes)

\* RJMSHandler.nb_completed_jobs.
nb_completed_jobs == Len(completed)

(* C27: within a simulation run nb_completed_jobs never decreases, and it   *)
(* increases by exactly one for each job that terminates, completed or      *)
(* killed: by the number of jobs that leave running in the step.            *)
C27_CompletedCount ==
  [][\/ lastOp' = "start" /\ result' = "ok"
     \/ /\ nb_completed_jobs' >= nb_completed_jobs
        /\ nb_completed_jobs' - nb_completed_jobs = Cardinality(running \ running')]_vars

(* C28: when the subscribers of JOB_ALLOCATED are called for job j the      *)
(* allocation is committed: j has its allocation, the resources of it are   *)
(* reserved for j in the agenda, and j is in ready and no longer in queue.  *)
C28_DispatchAfterCommit ==
  \A i \in DOMAIN dispatched :
    LET ev == dispatched[i]
    IN /\ ev.alloc # <<>>
       /\ \A r \in Range(ev.alloc) : ev.reservations[r] = ev.job
       /\ ev.job \in Range(ev.ready)
       /\ ev.job \notin Range(ev.queue)

(* C29: the start sweep is monotone: every job that is in ready when a      *)
(* sweep begins and whose hosts are all powered on is started in that       *)
(* sweep (in running, out of ready, one EXECUTE_JOB for it), whatever its   *)
(* position in ready and whatever jobs the sweep started or left waiting    *)
(* before it.                                                               *)
C29_SweepMonotone ==
  [][Swept' =>
       \A j \in Range(ready) :
         AllHostsOn(power', j) =>
           /\ j \in running' /\ j \notin Range(ready')
           /\ Len(ExecReqs(j)') = 1]_vars
\* One sweep has started both jobs, the second after the first.
C29_Witness ==
  /\ Swept /\ ready = <<>> /\ running = Jobs
  /\ \A j \in Jobs : Len(ExecReqs(j)) = 1 /\ start_time[j] = now

(* C30: a job allocated to a host that is switching-off is not lost: with   *)
(* an adapter that eventually confirms every pstate request and a           *)
(* controller that keeps processing events, a job that is in ready on a     *)
(* host that is switching-off is eventually started (EXECUTE_JOB issued).   *)
C30_JobNotLost ==
  \A j \in Jobs :
    (j \in Range(ready) /\ \E n \in HostsOf(j) : power[n] = "switching_off")
      ~> (execd[j] > 0)

\* The agenda rv agrees with the cohorts q (queue), rd (ready), run (running)
\* and comp (completed): a resource is reserved by a job exactly when the job
\* is in ready or running and holds the resource in its allocation.
AgreeIn(rv, q, rd, run, comp) ==
  /\ \A r \in DOMAIN rv, j \in Jobs :
       rv[r] = j <=> (j \in Range(rd) \cup run /\ r \in Range(alloc[j]))
  /\ \A j \in Range(q) \cup Range(comp), r \in DOMAIN rv : rv[r] # j
  /\ \A r \in DOMAIN rv : rv[r] # None => rv[r] \in Range(rd) \cup run

(* C31: the agenda and the cohorts agree in every state the controller      *)
(* shows, between two operations and at the moment it calls its             *)
(* subscribers: a resource r is reserved by job j exactly when j is in      *)
(* ready or running and r is in the allocation of j; no resource is         *)
(* reserved by a job of queue or completed, and no reservation points to a  *)
(* job outside ready and running.                                           *)
C31_AgendaAgrees ==
  /\ AgreeIn(reservations, queue, ready, running, completed)
  /\ \A i \in 1..Len(dispatched) :
       AgreeIn(dispatched[i].reservations, dispatched[i].queue,
               dispatched[i].ready, running, completed)

C33_StartKeepsFirstBatch ==
  [][\A a \in Unbounded, e \in FirstBatch :
       (lastOp' = "start" /\ result' = "ok" /\ Start(a.given, a.st, e, OneNode)) =>
         /\ queue' = (IF e.kind = "submit" /\ e.n <= nb_resources
                      THEN <<e.job>> ELSE <<>>)
         /\ submitter_ended' = (e.kind = "no_more_static_job_to_submit")
         /\ ready' = <<>> /\ running' = {} /\ completed' = <<>>]_vars

====
